---- MODULE Spec2Model ----
(***************************************************************************)
(* The editable-object history and durable-state subsystem of the 3D      *)
(* model editor (src/components/CanvasViewer.js, the component defined at  *)
(* lines 545-1265, and src/app/utils/idb.js).                              *)
(*                                                                         *)
(* Conventions of the model                                                *)
(*  - roughness and metalness are kept in tenths (5 stands for 0.5);       *)
(*  - a colour is the string of its hex value;                             *)
(*  - a mesh object is identified by its uuid, the pair (gen, idx): gen is *)
(*    the number of the load that created its scene graph and idx its      *)
(*    position in traversal order, so no uuid survives a reload;           *)
(*  - a texture is the image it shows plus whether the image is decoded;   *)
(*  - the two IndexedDB stores are served in the order the requests were   *)
(*    issued (storeQ), as IndexedDB serves open requests and transactions  *)
(*    with overlapping scope;                                              *)
(*    a read of the store 'models' may in fact overtake requests of the    *)
(*    store 'states', which SpecLate covers;                               *)
(*  - a handler runs to completion except where it awaits the texture      *)
(*    export of a snapshot capture, a store request or a file reader.      *)
(***************************************************************************)
EXTENDS Integers, Sequences, FiniteSets, TLC

VARIABLES
  undoHistory,   \* React state undoHistory
  redoHistory,   \* React state redoHistory
  scene,         \* React state scene: a scene reference
  modelUrl,      \* React state modelUrl: a blob url or NoUrl
  selectedMesh,  \* React state selectedMesh: a uuid or NoMesh
  textureList,   \* React state textureList (images uploaded so far)
  graphs,        \* the scene graphs built so far: gen -> meshes in traversal order
  mounted,       \* gen of the graph attached under the canvas root, 0 if none
  nextGen,       \* number of graphs built so far
  docs,          \* object store 'states': key -> document
  blob,          \* object store 'models', key 'uploadedModel'
  storeQ,        \* store requests issued and not yet served, oldest first
  lsModelKey,    \* localStorage has 'modelKey'
  pending,       \* handlers suspended at an await, with their closures
  notices,       \* the alerts shown in this session, in order
  faults,        \* down: indexedDB.open fails; left: faults that may still occur
  uncaught,      \* the call sites whose promise was rejected with no handler
  ops,           \* user operations still allowed (bounds the exploration)
  \* observers: they record what happened and no action reads them
  rt,            \* the edits observed since the scene was last at rest, and the
                 \* material states before and after each of them
  boot,          \* the history document found at mount; is the session still
                 \* without a history operation (quietH), without an edit (quietG);
                 \* early: did the restore issued for the canvas root resolve
                 \* before the graph was there (fetchFirst) or after (graphFirst)
  resetMon,      \* left: store requests still to serve among those issued up to
                 \* the last resetHistory (its own included), -1 when none is
                 \* tracked; stale: a write of a non-empty history was among them
  lastSave,      \* the asset, material states and document of the last
                 \* saveCurrentState; reloaded: a new session began after it
  probe          \* input and result of an isolated call of deserializeMaterial

vars == <<undoHistory, redoHistory, scene, modelUrl, selectedMesh, textureList,
          graphs, mounted, nextGen, docs, blob, storeQ, lsModelKey, pending,
          notices, faults, uncaught, ops, rt, boot, resetMon, lastSave, probe>>

\* ------------------------------------------------------------------ bounds
MaxOps == 3
MaxEngineOps == 3
MaxLoads == 2
MaxQueue == 2
MaxPending == 1
MaxRestoreOps == 2
MaxFaultOps == 2
MaxFaults == 1
MaxLateOps == 2
MaxLateQueue == 7

\* --------------------------------------------------------- program constants
MAX_HISTORY == 20
HISTORY_KEY == "historyState"
MODEL_STATE_KEY == "modelState"
\* the default of `x || 0.5`, in tenths
HalfDefault == 5

\* ------------------------------------------------------------------- values
NoMap == [img |-> "none", ready |-> FALSE]
NullURL == "null"
NoMesh == [gen |-> 0, idx |-> 0]
NoUrl == "none"
NullScene == [kind |-> "null", gen |-> 0]
RootScene == [kind |-> "root", gen |-> 0]
GltfScene(g) == [kind |-> "gltf", gen |-> g]
Absent == [kind |-> "absent"]
NoSave == [asset |-> "none", mats |-> <<>>, doc |-> Absent, reloaded |-> FALSE]
NoFaults == [down |-> FALSE, left |-> 0]
NoProbe == [ms |-> <<>>, saved |-> Absent, out |-> <<>>, done |-> FALSE]

Gens == 1..MaxLoads

\* The asset files a user may load: each a list of meshes in traversal order,
\* with the authored name ("" when the file gives none) and material.
AssetNames == {"car", "box"}
AssetMeshes(a) ==
  IF a = "car"
  THEN << [name |-> "wheel",
           mat |-> [color |-> "ffffff", roughness |-> 5, metalness |-> 0, map |-> NoMap]],
          [name |-> "",
           mat |-> [color |-> "6b7280", roughness |-> 8, metalness |-> 1,
                    map |-> [img |-> "img0", ready |-> TRUE]]] >>
  ELSE << [name |-> "",
           mat |-> [color |-> "ffffff", roughness |-> 5, metalness |-> 5, map |-> NoMap]],
          [name |-> "",
           mat |-> [color |-> "000000", roughness |-> 0, metalness |-> 5, map |-> NoMap]] >>

\* Inputs of the editing actions.
EditColors == {"ef4444", "10b981"}
EditPresets == {"metal"}
EditImages == {"img1"}

\* ------------------------------------------------------------ pure helpers
\* x || 0.5
OrHalf(x) == IF x = 0 THEN HalfDefault ELSE x

\* scene.getObjectByName(name) over the meshes ms: index of the first match, 0 if none
getObjectByName(ms, name) ==
  IF \E i \in 1..Len(ms) : ms[i].name = name
  THEN CHOOSE i \in 1..Len(ms) : ms[i].name = name /\ \A j \in 1..(i-1) : ms[j].name # name
  ELSE 0

\* scene.getObjectByProperty('uuid', uuid)
getObjectByUuid(ms, uuid) ==
  IF \E i \in 1..Len(ms) : ms[i].uuid = uuid
  THEN CHOOSE i \in 1..Len(ms) : ms[i].uuid = uuid
  ELSE 0

\* serializeMaterial(mesh, type, textureDataURL)
serializeMaterial(mesh, type, textureDataURL) ==
  [name |-> mesh.name,
   uuid |-> mesh.uuid,
   color |-> mesh.mat.color,
   preset |-> type,
   textureDataURL |-> textureDataURL,
   roughness |-> OrHalf(mesh.mat.roughness),
   metalness |-> OrHalf(mesh.mat.metalness)]

\* a resolution that falls back to the first mesh of the scene
resolveOrFirst(ms, saved) ==
  IF getObjectByUuid(ms, saved.uuid) # 0 THEN getObjectByUuid(ms, saved.uuid)
  ELSE IF saved.name # "" /\ getObjectByName(ms, saved.name) # 0
  THEN getObjectByName(ms, saved.name)
  ELSE IF ms # <<>> THEN 1 ELSE 0

\* the mesh deserializeMaterial resolves: by uuid first, then by name
resolveTarget(ms, saved) ==
  IF getObjectByUuid(ms, saved.uuid) # 0 THEN getObjectByUuid(ms, saved.uuid)
  ELSE IF saved.name # "" THEN getObjectByName(ms, saved.name)
  ELSE 0

\* the MeshStandardMaterial deserializeMaterial builds from a snapshot
materialOf(saved) ==
  [color |-> saved.color,
   roughness |-> OrHalf(saved.roughness),
   metalness |-> OrHalf(saved.metalness),
   map |-> IF saved.textureDataURL # NullURL
           THEN [img |-> saved.textureDataURL, ready |-> FALSE]
           ELSE NoMap]

\* deserializeMaterial(scene, saved), on the meshes ms of the scene
deserializeMaterial(ms, saved) ==
  LET i == resolveTarget(ms, saved) IN
  IF i = 0 THEN ms
  ELSE [ms EXCEPT ![i].mat = materialOf(saved)]

\* a capture that encodes whatever texture is bound, decoded or not
captureBound(mesh) == IF mesh.mat.map # NoMap THEN mesh.mat.map.img ELSE NullURL

\* what getTextureDataUrl yields for the capture of a mesh: the encoded image
\* when a texture is bound and its image is there, null otherwise
captureTexture(mesh) ==
  IF mesh.mat.map # NoMap /\ mesh.mat.map.ready THEN mesh.mat.map.img ELSE NullURL

\* does the capture of this mesh await getTextureDataUrl
capturesTexture(mesh) == mesh.mat.map # NoMap /\ mesh.mat.map.ready

\* an updater that turns the new entry away once the stack is full
pushUnlessFull(prev, entry) ==
  IF Len(prev) >= MAX_HISTORY THEN prev ELSE Append(prev, entry)

\* the updater of setUndoHistory in pushUndo
pushCapped(prev, entry) ==
  LET updated == Append(prev, entry) IN
  IF Len(updated) > MAX_HISTORY THEN Tail(updated) ELSE updated

\* prev.slice(0, -1)
dropLast(prev) == IF Len(prev) = 0 THEN prev ELSE SubSeq(prev, 1, Len(prev) - 1)

\* the sequence s without its i-th element
removeAt(s, i) == SubSeq(s, 1, i - 1) \o SubSeq(s, i + 1, Len(s))

\* ------------------------------------------------------------- scene access
\* the graph a scene reference leads to: the canvas root holds the mounted graph
sceneGen(ref) ==
  IF ref.kind = "gltf" THEN ref.gen
  ELSE IF ref.kind = "root" THEN mounted
  ELSE 0

sceneMeshes(ref) == IF sceneGen(ref) = 0 THEN <<>> ELSE graphs[sceneGen(ref)]

\* the mesh object with this uuid
meshOf(uuid) == graphs[uuid.gen][uuid.idx]

\* the graphs after deserializeMaterial(ref, saved)
applyToScene(gs, ref, saved) ==
  IF sceneGen(ref) = 0 THEN gs
  ELSE [gs EXCEPT ![sceneGen(ref)] = deserializeMaterial(gs[sceneGen(ref)], saved)]

\* ------------------------------------------------------------------ the store
historyDoc(u, r) == [kind |-> "history", undoHistory |-> u, redoHistory |-> r]

putRequest(key, data, cont) == [op |-> "put", key |-> key, data |-> data, cont |-> cont]
getRequest(key, cont) == [op |-> "get", key |-> key, data |-> Absent, cont |-> cont]
NoCont == [kind |-> "none"]

\* a persist effect whose write overtakes the writes already in flight
persistOvertaking(q, u, r) == <<putRequest(HISTORY_KEY, historyDoc(u, r), NoCont)>> \o q

\* the persist effect (deps undoHistory, redoHistory): saveModelState(HISTORY_KEY, ...)
persistEffect(q, u, r) == Append(q, putRequest(HISTORY_KEY, historyDoc(u, r), NoCont))

\* ------------------------------------------------------------------ observers
\* what a claim compares of a material: colour, roughness, metalness and the image
\* of the texture (not whether the image has finished decoding)
matState(mat) ==
  [color |-> mat.color, roughness |-> mat.roughness, metalness |-> mat.metalness,
   img |-> mat.map.img]

\* the material state of every object of every graph
MatsOf(gs) == [g \in Gens |-> [i \in 1..Len(gs[g]) |-> matState(gs[g][i].mat)]]

RtIdle == [phase |-> "idle", T |-> <<>>, pos |-> 0, targets |-> <<>>]

\* rt after an edit (p: its closure) that took the graphs from gs to gs2; an edit
\* that another handler overlapped, or whose mutation is still to come, is not followed
rtEdit(p, gs, gs2) ==
  IF p.rest # <<>> \/ p.edit.type = "upload" THEN RtIdle
  ELSE LET base == IF rt.phase = "edits" THEN rt.T ELSE <<MatsOf(gs)>>
           tg == IF rt.phase = "edits" THEN rt.targets ELSE <<>>
       IN IF Len(base) > MAX_HISTORY THEN RtIdle
          ELSE [phase |-> "edits", T |-> Append(base, MatsOf(gs2)),
                pos |-> Len(base) + 1, targets |-> Append(tg, p.mesh)]

\* rt after an undo: followed while only undos came after the edits
rtUndo(p) ==
  IF p.rest # <<>> \/ rt.phase \notin {"edits", "undos"} \/ rt.pos <= 1 THEN RtIdle
  ELSE [rt EXCEPT !.phase = "undos", !.pos = @ - 1]

\* rt after a redo: followed while only redos came after the undos
rtRedo(p) ==
  IF p.rest # <<>> \/ rt.phase \notin {"undos", "redos"} \/ rt.pos >= Len(rt.T) THEN RtIdle
  ELSE [rt EXCEPT !.phase = "redos", !.pos = @ + 1]

\* resetMon after the store has served the request req
NoReset == [left |-> -1, stale |-> FALSE]
servedOne(req) ==
  IF resetMon.left > 0 THEN [resetMon EXCEPT !.left = @ - 1]
  ELSE IF resetMon.left = 0 /\ req.op = "put" /\ req.key = HISTORY_KEY THEN NoReset
  ELSE resetMon

\* resetMon after a resetHistory that left the requests q; qBefore were in flight
resetSeen(q, qBefore) ==
  [left |-> Len(q),
   stale |-> \E i \in 1..Len(qBefore) :
               /\ qBefore[i].op = "put" /\ qBefore[i].key = HISTORY_KEY
               /\ qBefore[i].data.undoHistory # <<>>]

NoisyH == [boot EXCEPT !.quietH = FALSE]
NoisyHG == [boot EXCEPT !.quietH = FALSE, !.quietG = FALSE]

\* ------------------------------------------------------------ editing actions
\* the material an edit leaves on the mesh, after pushUndo
presetMaterial(type) ==
  IF type = "wood-light" THEN [color |-> "fde68a", roughness |-> 8, metalness |-> 1, map |-> NoMap]
  ELSE IF type = "wood-dark" THEN [color |-> "7c3f00", roughness |-> 8, metalness |-> 1, map |-> NoMap]
  ELSE IF type = "metal" THEN [color |-> "d1d5db", roughness |-> 2, metalness |-> 9, map |-> NoMap]
  ELSE IF type = "metal-dark" THEN [color |-> "4b5563", roughness |-> 2, metalness |-> 9, map |-> NoMap]
  ELSE [color |-> "bfdbfe", roughness |-> 6, metalness |-> 1, map |-> NoMap]

editedMaterial(mat, edit) ==
  IF edit.type = "color" THEN [mat EXCEPT !.color = edit.value, !.map = NoMap]
  ELSE IF edit.type = "preset" THEN presetMaterial(edit.value)
  ELSE [mat EXCEPT !.map = [img |-> edit.value, ready |-> FALSE]]

\* the entry pushUndo records for a mesh
undoEntry(mesh, preset, tex) ==
  [meshName |-> mesh.name, material |-> serializeMaterial(mesh, preset, tex)]

\* a pushUndo that forgets setRedoHistory([])
redoKept(prev) == prev

\* the redo stack pushUndo leaves
redoAfterEdit(prev) == <<>>

\* pushUndo from its setState calls on, then the caller's mutation of the mesh
\* (p: the closure of the handler: mesh, preset, tex, edit)
CompleteEdit(p) ==
  /\ undoHistory' = pushCapped(undoHistory, undoEntry(meshOf(p.mesh), p.preset, p.tex))
  /\ redoHistory' = redoAfterEdit(redoHistory)
  /\ storeQ' = persistEffect(storeQ, undoHistory', redoHistory')
  /\ IF p.edit.type = "upload"
     THEN /\ graphs' = graphs
          /\ pending' = Append(p.rest, [kind |-> "reader", mesh |-> p.mesh,
                                        file |-> p.edit.value, list |-> p.list])
     ELSE /\ graphs' = [graphs EXCEPT ![p.mesh.gen][p.mesh.idx].mat =
                                        editedMaterial(@, p.edit)]
          /\ pending' = p.rest
  /\ rt' = rtEdit(p, graphs, graphs')
  /\ boot' = NoisyHG

\* applyColorToSelected / applyMaterialPreset / applyTextureToSelected / the
\* texture list's onClick: up to the await of the capture
EditStarts(preset, edit) ==
  /\ ops > 0
  /\ selectedMesh # NoMesh
  /\ modelUrl # NoUrl
  /\ capturesTexture(meshOf(selectedMesh)) \/ edit.type = "upload" => Len(pending) < MaxPending
  /\ ops' = ops - 1
  /\ LET p == [kind |-> "edit", mesh |-> selectedMesh, preset |-> preset,
               tex |-> captureTexture(meshOf(selectedMesh)), edit |-> edit,
               list |-> textureList]
     IN IF capturesTexture(meshOf(selectedMesh))
        THEN /\ pending' = Append(pending, p)
             /\ UNCHANGED <<undoHistory, redoHistory, storeQ, graphs, rt, boot>>
        ELSE CompleteEdit(p @@ [rest |-> pending])
  /\ UNCHANGED <<scene, modelUrl, selectedMesh, textureList, mounted, nextGen,
                 docs, blob, lsModelKey, notices, resetMon, lastSave, probe,
                 faults, uncaught>>

\* an edit, started while at most MaxQueue - 1 store requests are outstanding
BeginEdit(preset, edit) == Len(storeQ) < MaxQueue /\ EditStarts(preset, edit)

ApplyColor == \E hex \in EditColors : BeginEdit("custom", [type |-> "color", value |-> hex])

ApplyPreset == \E t \in EditPresets : BeginEdit(t, [type |-> "preset", value |-> t])

ApplyTexture == \E f \in EditImages : BeginEdit("custom", [type |-> "upload", value |-> f])

PickTexture == \E t \in textureList : BeginEdit("custom", [type |-> "texture", value |-> t])

\* the capture of a suspended edit completes
ResumeEdit ==
  \E i \in 1..Len(pending) :
    /\ pending[i].kind = "edit"
    /\ CompleteEdit(pending[i] @@ [rest |-> removeAt(pending, i)])
    /\ UNCHANGED <<scene, modelUrl, selectedMesh, textureList, mounted, nextGen,
                   docs, blob, lsModelKey, notices, ops, resetMon, lastSave, probe,
                 faults, uncaught>>

\* reader.onload of applyTextureToSelected
ReaderLoaded ==
  \E i \in 1..Len(pending) :
    /\ pending[i].kind = "reader"
    /\ graphs' = [graphs EXCEPT ![pending[i].mesh.gen][pending[i].mesh.idx].mat.map =
                                  [img |-> pending[i].file, ready |-> FALSE]]
    /\ textureList' = pending[i].list \cup {pending[i].file}
    /\ pending' = removeAt(pending, i)
    /\ rt' = RtIdle
    /\ boot' = NoisyHG
    /\ UNCHANGED <<undoHistory, redoHistory, scene, modelUrl, selectedMesh, mounted,
                   nextGen, docs, blob, storeQ, lsModelKey, notices, ops, resetMon,
                   lastSave, probe,
                 faults, uncaught>>

\* the image of a texture made by TextureLoader.load finishes decoding
TextureLoaded ==
  \E g \in Gens : \E i \in 1..Len(graphs[g]) :
    /\ graphs[g][i].mat.map # NoMap
    /\ ~graphs[g][i].mat.map.ready
    /\ graphs' = [graphs EXCEPT ![g][i].mat.map.ready = TRUE]
    /\ UNCHANGED <<undoHistory, redoHistory, scene, modelUrl, selectedMesh, textureList,
                   mounted, nextGen, docs, blob, storeQ, lsModelKey, pending, notices, ops,
                   rt, boot, resetMon, lastSave, probe,
                 faults, uncaught>>

\* ------------------------------------------------------------------ undo / redo
\* the entry undo (redo) pushes on the opposite stack: the current state of the
\* mesh found by name
oppositeEntry(step, mesh, tex) ==
  [meshName |-> step.meshName, material |-> serializeMaterial(mesh, "custom", tex)]

\* undo from its setState calls on (p: the closure: scene, step, mesh, tex)
CompleteUndo(p) ==
  /\ undoHistory' = dropLast(undoHistory)
  /\ redoHistory' = Append(redoHistory, oppositeEntry(p.step, meshOf(p.mesh), p.tex))
  /\ graphs' = applyToScene(graphs, p.scene, p.step.material)
  /\ storeQ' = persistEffect(storeQ, undoHistory', redoHistory')
  /\ pending' = p.rest
  /\ rt' = rtUndo(p)
  /\ boot' = NoisyHG

\* redo from its setState calls on
CompleteRedo(p) ==
  /\ redoHistory' = dropLast(redoHistory)
  /\ undoHistory' = Append(undoHistory, oppositeEntry(p.step, meshOf(p.mesh), p.tex))
  /\ graphs' = applyToScene(graphs, p.scene, p.step.material)
  /\ storeQ' = persistEffect(storeQ, undoHistory', redoHistory')
  /\ pending' = p.rest
  /\ rt' = rtRedo(p)
  /\ boot' = NoisyHG

\* the closure of undo / redo for the step it read from its stack
stepClosure(kind, step) ==
  LET ms == sceneMeshes(scene)
      mesh == ms[getObjectByName(ms, step.meshName)]
  IN [kind |-> kind, scene |-> scene, step |-> step, mesh |-> mesh.uuid,
      tex |-> captureTexture(mesh)]

\* is the target of the step found in the scene (the `if (!mesh) return`)
targetFound(step) == getObjectByName(sceneMeshes(scene), step.meshName) # 0

\* undo(): the button is disabled on an empty stack
Undo ==
  /\ ops > 0
  /\ Len(storeQ) < MaxQueue
  /\ Len(undoHistory) > 0
  /\ scene # NullScene
  /\ ops' = ops - 1
  /\ LET step == undoHistory[Len(undoHistory)] IN
     IF ~targetFound(step)
     THEN /\ rt' = RtIdle
          /\ UNCHANGED <<undoHistory, redoHistory, graphs, storeQ, pending, boot>>
     ELSE IF capturesTexture(meshOf(stepClosure("undo", step).mesh))
     THEN /\ Len(pending) < MaxPending
          /\ pending' = Append(pending, stepClosure("undo", step))
          /\ UNCHANGED <<undoHistory, redoHistory, graphs, storeQ, rt, boot>>
     ELSE CompleteUndo(stepClosure("undo", step) @@ [rest |-> pending])
  /\ UNCHANGED <<scene, modelUrl, selectedMesh, textureList, mounted, nextGen,
                 docs, blob, lsModelKey, notices, resetMon, lastSave, probe,
                 faults, uncaught>>

\* redo()
Redo ==
  /\ ops > 0
  /\ Len(storeQ) < MaxQueue
  /\ Len(redoHistory) > 0
  /\ scene # NullScene
  /\ ops' = ops - 1
  /\ LET step == redoHistory[Len(redoHistory)] IN
     IF ~targetFound(step)
     THEN /\ rt' = RtIdle
          /\ UNCHANGED <<undoHistory, redoHistory, graphs, storeQ, pending, boot>>
     ELSE IF capturesTexture(meshOf(stepClosure("redo", step).mesh))
     THEN /\ Len(pending) < MaxPending
          /\ pending' = Append(pending, stepClosure("redo", step))
          /\ UNCHANGED <<undoHistory, redoHistory, graphs, storeQ, rt, boot>>
     ELSE CompleteRedo(stepClosure("redo", step) @@ [rest |-> pending])
  /\ UNCHANGED <<scene, modelUrl, selectedMesh, textureList, mounted, nextGen,
                 docs, blob, lsModelKey, notices, resetMon, lastSave, probe,
                 faults, uncaught>>

\* the capture of a suspended undo completes
ResumeUndo ==
  \E i \in 1..Len(pending) :
    /\ pending[i].kind = "undo"
    /\ CompleteUndo(pending[i] @@ [rest |-> removeAt(pending, i)])
    /\ UNCHANGED <<scene, modelUrl, selectedMesh, textureList, mounted, nextGen,
                   docs, blob, lsModelKey, notices, ops, resetMon, lastSave, probe,
                 faults, uncaught>>

\* the capture of a suspended redo completes
ResumeRedo ==
  \E i \in 1..Len(pending) :
    /\ pending[i].kind = "redo"
    /\ CompleteRedo(pending[i] @@ [rest |-> removeAt(pending, i)])
    /\ UNCHANGED <<scene, modelUrl, selectedMesh, textureList, mounted, nextGen,
                   docs, blob, lsModelKey, notices, ops, resetMon, lastSave, probe,
                 faults, uncaught>>

\* the guard of undo and redo: `if (stack.length === 0 || !scene) return`
returnsEarly(stack, sc) == Len(stack) = 0 \/ sc = NullScene

\* a guard that resets both stacks when it has nothing to do
clearedOnReturn(u, r) == << <<>>, <<>> >>

\* the two stacks after the guard has returned: no setState call was reached
afterEarlyReturn(u, r) == <<u, r>>

\* the handler has returned at its guard; the persist effect runs only when a
\* stack has changed
IdleReturn ==
  /\ ops > 0
  /\ Len(storeQ) < MaxQueue
  /\ ops' = ops - 1
  /\ undoHistory' = afterEarlyReturn(undoHistory, redoHistory)[1]
  /\ redoHistory' = afterEarlyReturn(undoHistory, redoHistory)[2]
  /\ storeQ' = IF <<undoHistory', redoHistory'>> = <<undoHistory, redoHistory>>
                THEN storeQ
                ELSE persistEffect(storeQ, undoHistory', redoHistory')
  /\ UNCHANGED <<scene, modelUrl, selectedMesh, textureList, graphs, mounted, nextGen,
                 docs, blob, lsModelKey, pending, notices, rt, boot, resetMon, lastSave,
                 probe, faults, uncaught>>

\* undo() called with an empty undo stack or without a scene
UndoIdle == returnsEarly(undoHistory, scene) /\ IdleReturn

\* redo() called with an empty redo stack or without a scene
RedoIdle == returnsEarly(redoHistory, scene) /\ IdleReturn

\* a click on a mesh of the mounted model, or the part dropdown
SelectMesh ==
  /\ ops > 0
  /\ mounted # 0
  /\ \E i \in 1..Len(graphs[mounted]) :
       /\ selectedMesh # graphs[mounted][i].uuid
       /\ selectedMesh' = graphs[mounted][i].uuid
  /\ UNCHANGED <<undoHistory, redoHistory, scene, modelUrl, textureList, graphs, mounted,
                 nextGen, docs, blob, storeQ, lsModelKey, pending, notices, ops,
                 rt, boot, resetMon, lastSave, probe,
                 faults, uncaught>>

\* ------------------------------------------------------- loading and restoring
\* a naming effect that gives every mesh a generated name
renameAll(name, idx) == "part_undefined"

\* the Model naming effect: obj.name = `part_${idx}` for a mesh without a name;
\* traverse calls its callback with the object alone, so idx is undefined
assignName(name, idx) == IF name = "" THEN "part_undefined" ELSE name

\* the graph useGLTF builds from an asset on load g, after the naming effect
builtGraph(a, g) ==
  [i \in 1..Len(AssetMeshes(a)) |->
     [name |-> assignName(AssetMeshes(a)[i].name, i),
      uuid |-> [gen |-> g, idx |-> i],
      mat |-> AssetMeshes(a)[i].mat]]

\* a restore that falls back to the first mesh when the name is not found
restoreOrFirst(ms, e) ==
  LET i == IF getObjectByName(ms, e.name) # 0 THEN getObjectByName(ms, e.name)
           ELSE IF ms # <<>> THEN 1 ELSE 0
  IN IF i = 0 THEN ms
     ELSE [ms EXCEPT ![i].mat =
             [@ EXCEPT !.color = e.color,
                       !.map = IF e.textureDataURL # NullURL
                               THEN [img |-> e.textureDataURL, ready |-> FALSE]
                               ELSE @]]

\* a restore that sets the texture of the entry and leaves the colour
restoreTextureOnly(ms, e) ==
  LET i == getObjectByName(ms, e.name) IN
  IF i = 0 \/ e.textureDataURL = NullURL THEN ms
  ELSE [ms EXCEPT ![i].mat.map = [img |-> e.textureDataURL, ready |-> FALSE]]

\* a restore that multiplies the saved colour into the colour the object has
\* (white leaves the saved colour, any other colour gives a mixed one)
restoreTinting(ms, e) ==
  LET i == getObjectByName(ms, e.name) IN
  IF i = 0 THEN ms
  ELSE [ms EXCEPT ![i].mat =
          [@ EXCEPT !.color = IF @ = "ffffff" THEN e.color ELSE "mixed",
                    !.map = IF e.textureDataURL # NullURL
                            THEN [img |-> e.textureDataURL, ready |-> FALSE]
                            ELSE @]]

\* one entry of saved.materials applied by the restore effects
restoreEntry(ms, e) ==
  LET i == getObjectByName(ms, e.name) IN
  IF i = 0 THEN ms
  ELSE [ms EXCEPT ![i].mat =
          [@ EXCEPT !.color = e.color,
                    !.map = IF e.textureDataURL # NullURL
                            THEN [img |-> e.textureDataURL, ready |-> FALSE]
                            ELSE @]]

\* saved.materials.forEach(...)
RECURSIVE restoreMaterials(_, _)
restoreMaterials(ms, materials) ==
  IF materials = <<>> THEN ms
  ELSE restoreMaterials(restoreEntry(ms, Head(materials)), Tail(materials))

\* collectMaterialStates(root)
collectMaterialStates(ms) ==
  [i \in 1..Len(ms) |->
     [name |-> ms[i].name, color |-> ms[i].mat.color,
      textureDataURL |-> captureTexture(ms[i])]]

modelDoc(materials, u, r, list) ==
  [kind |-> "model", materials |-> materials, undoHistory |-> u, redoHistory |-> r,
   textureList |-> list]

\* the restore effects: getModelState('modelState') for the scene ref
restoreRequest(ref) == getRequest(MODEL_STATE_KEY, [kind |-> "restore", scene |-> ref])

\* the CanvasViewer restore effect (deps scene, modelUrl)
restoreEffect(q, ref, url) ==
  IF ref = NullScene \/ url = NoUrl THEN q ELSE Append(q, restoreRequest(ref))

\* the requests the effects of a fresh mount issue, in effect order
mountRequests(key) ==
  << getRequest(HISTORY_KEY, [kind |-> "historyLoad"]),
     putRequest(HISTORY_KEY, historyDoc(<<>>, <<>>), NoCont) >>
  \o (IF key THEN << [op |-> "getBlob", key |-> "uploadedModel", data |-> Absent,
                      cont |-> [kind |-> "blobLoad"]] >>
      ELSE <<>>)

\* a resetHistory that empties the stacks in memory only
resetUnsaved(q) == q

\* resetHistory(): the two setState calls, the explicit save, then the persist effect
resetWrites(q) ==
  persistEffect(Append(q, putRequest(HISTORY_KEY, historyDoc(<<>>, <<>>), NoCont)),
                <<>>, <<>>)

\* handleBrowse up to `await saveModelBlob`
Browse ==
  /\ ops > 0
  /\ Len(storeQ) < MaxQueue
  /\ modelUrl = NoUrl
  /\ \E a \in AssetNames :
       storeQ' = Append(storeQ, [op |-> "putBlob", key |-> "uploadedModel", data |-> a,
                                 cont |-> [kind |-> "browse"]])
  /\ ops' = ops - 1
  /\ UNCHANGED <<undoHistory, redoHistory, scene, modelUrl, selectedMesh, textureList,
                 graphs, mounted, nextGen, docs, blob, lsModelKey, pending, notices,
                 rt, boot, resetMon, lastSave, probe,
                 faults, uncaught>>

\* the blob is stored and handleBrowse goes on: setModelUrl, modelKey, resetHistory;
\* the object URL is a new one, so a Model that was mounted loads again
BrowseStored ==
  /\ ~faults.down
  /\ storeQ # <<>>
  /\ Head(storeQ).op = "putBlob"
  /\ blob' = Head(storeQ).data
  /\ modelUrl' = Head(storeQ).data
  /\ mounted' = 0
  /\ lsModelKey' = TRUE
  /\ undoHistory' = <<>>
  /\ redoHistory' = <<>>
  /\ storeQ' = restoreEffect(resetWrites(Tail(storeQ)), scene, modelUrl')
  /\ rt' = RtIdle
  /\ boot' = NoisyH
  /\ resetMon' = resetSeen(resetWrites(Tail(storeQ)), Tail(storeQ))
  /\ UNCHANGED <<scene, selectedMesh, textureList, graphs, nextGen, docs,
                 pending, notices, ops, lastSave, probe,
                 faults, uncaught>>

\* loadFromIndexedDB after getModelBlob
BlobLoaded ==
  /\ ~faults.down
  /\ storeQ # <<>>
  /\ Head(storeQ).op = "getBlob"
  /\ IF blob # NoUrl
     THEN /\ modelUrl' = blob
          /\ mounted' = 0
          /\ storeQ' = restoreEffect(Tail(storeQ), scene, modelUrl')
     ELSE /\ modelUrl' = modelUrl
          /\ mounted' = mounted
          /\ storeQ' = Tail(storeQ)
  /\ resetMon' = servedOne(Head(storeQ))
  /\ UNCHANGED <<undoHistory, redoHistory, scene, selectedMesh, textureList, graphs,
                 nextGen, docs, blob, lsModelKey, pending, notices, ops,
                 rt, boot, lastSave, probe,
                 faults, uncaught>>

\* useGLTF has parsed the asset: the Model effects run (naming, setScene, restore)
\* and then the CanvasViewer restore effect for the new scene
ModelMounted ==
  /\ modelUrl # NoUrl
  /\ mounted = 0
  /\ nextGen < MaxLoads
  /\ nextGen' = nextGen + 1
  /\ mounted' = nextGen'
  /\ graphs' = [graphs EXCEPT ![nextGen'] = builtGraph(modelUrl, nextGen')]
  /\ scene' = GltfScene(nextGen')
  /\ storeQ' = restoreEffect(Append(storeQ, restoreRequest(scene')), scene', modelUrl)
  /\ rt' = RtIdle
  /\ UNCHANGED <<undoHistory, redoHistory, modelUrl, selectedMesh, textureList, docs,
                 blob, lsModelKey, pending, notices, ops, boot, resetMon, lastSave, probe,
                 faults, uncaught>>

\* a restore effect's getModelState resolves and the materials are applied
RestoreLoaded ==
  /\ ~faults.down
  /\ storeQ # <<>>
  /\ Head(storeQ).op = "get"
  /\ Head(storeQ).cont.kind = "restore"
  /\ LET saved == docs[MODEL_STATE_KEY]
         g == sceneGen(Head(storeQ).cont.scene)
     IN IF saved = Absent \/ g = 0
        THEN graphs' = graphs
        ELSE graphs' = [graphs EXCEPT ![g] = restoreMaterials(@, saved.materials)]
  /\ storeQ' = Tail(storeQ)
  /\ rt' = IF graphs' = graphs THEN rt ELSE RtIdle
  /\ resetMon' = servedOne(Head(storeQ))
  /\ boot' = IF Head(storeQ).cont.scene # RootScene THEN boot
             ELSE [boot EXCEPT !.early = IF mounted = 0 THEN "fetchFirst" ELSE "graphFirst"]
  /\ UNCHANGED <<undoHistory, redoHistory, scene, modelUrl, selectedMesh, textureList,
                 mounted, nextGen, docs, blob, lsModelKey, pending, notices, ops,
                 lastSave, probe,
                 faults, uncaught>>

\* the startup getModelState(HISTORY_KEY) resolves
HistoryLoaded ==
  /\ ~faults.down
  /\ storeQ # <<>>
  /\ Head(storeQ).op = "get"
  /\ Head(storeQ).cont.kind = "historyLoad"
  /\ LET saved == docs[HISTORY_KEY] IN
     IF saved = Absent
     THEN /\ UNCHANGED <<undoHistory, redoHistory>>
          /\ storeQ' = Tail(storeQ)
     ELSE /\ undoHistory' = saved.undoHistory
          /\ redoHistory' = saved.redoHistory
          /\ storeQ' = persistEffect(Tail(storeQ), undoHistory', redoHistory')
  /\ rt' = RtIdle
  /\ resetMon' = servedOne(Head(storeQ))
  /\ UNCHANGED <<scene, modelUrl, selectedMesh, textureList, graphs, mounted, nextGen,
                 docs, blob, lsModelKey, pending, notices, ops, boot, lastSave, probe,
                 faults, uncaught>>

\* a saveModelState request is served; the save button's one is followed by its alert
StorePut ==
  /\ ~faults.down
  /\ storeQ # <<>>
  /\ Head(storeQ).op = "put"
  /\ docs' = [docs EXCEPT ![Head(storeQ).key] = Head(storeQ).data]
  /\ notices' = IF Head(storeQ).cont.kind = "saved" THEN Append(notices, "Saved!")
                 ELSE notices
  /\ storeQ' = Tail(storeQ)
  /\ resetMon' = servedOne(Head(storeQ))
  /\ UNCHANGED <<undoHistory, redoHistory, scene, modelUrl, selectedMesh, textureList,
                 graphs, mounted, nextGen, blob, lsModelKey, pending, ops,
                 rt, boot, lastSave, probe,
                 faults, uncaught>>

\* saveCurrentState up to `await saveModelState`
Save ==
  /\ ops > 0
  /\ Len(storeQ) < MaxQueue
  /\ modelUrl # NoUrl
  /\ scene # NullScene
  /\ storeQ' = Append(storeQ,
       putRequest(MODEL_STATE_KEY,
                  modelDoc(collectMaterialStates(sceneMeshes(scene)), undoHistory,
                           redoHistory, textureList),
                  [kind |-> "saved"]))
  /\ ops' = ops - 1
  /\ lastSave' = [asset |-> modelUrl,
                  mats |-> [i \in 1..Len(sceneMeshes(scene)) |->
                              matState(sceneMeshes(scene)[i].mat)],
                  doc |-> modelDoc(collectMaterialStates(sceneMeshes(scene)), undoHistory,
                                   redoHistory, textureList),
                  reloaded |-> FALSE]
  /\ UNCHANGED <<undoHistory, redoHistory, scene, modelUrl, selectedMesh, textureList,
                 graphs, mounted, nextGen, docs, blob, lsModelKey, pending, notices,
                 rt, boot, resetMon, probe,
                 faults, uncaught>>

\* the Clear/Remove Model button
Clear ==
  /\ ops > 0
  /\ Len(storeQ) < MaxQueue
  /\ modelUrl # NoUrl
  /\ modelUrl' = NoUrl
  /\ selectedMesh' = NoMesh
  /\ scene' = NullScene
  /\ mounted' = 0
  /\ undoHistory' = <<>>
  /\ redoHistory' = <<>>
  /\ storeQ' = resetWrites(storeQ)
  /\ lsModelKey' = FALSE
  /\ ops' = ops - 1
  /\ rt' = RtIdle
  /\ boot' = NoisyHG
  /\ resetMon' = resetSeen(storeQ', storeQ)
  /\ UNCHANGED <<textureList, graphs, nextGen, docs, blob, pending, notices, lastSave, probe,
                 faults, uncaught>>

\* the page is closed and opened again: a new session mounts the component
NewSession ==
  /\ ops > 0
  /\ storeQ = <<>>
  /\ pending = <<>>
  /\ nextGen > 0
  /\ undoHistory' = <<>>
  /\ redoHistory' = <<>>
  /\ scene' = RootScene
  /\ modelUrl' = NoUrl
  /\ selectedMesh' = NoMesh
  /\ mounted' = 0
  /\ graphs' = [g \in Gens |-> <<>>]
  /\ storeQ' = mountRequests(lsModelKey)
  /\ notices' = <<>>
  /\ ops' = ops - 1
  /\ rt' = RtIdle
  /\ boot' = [history |-> docs[HISTORY_KEY], quietH |-> TRUE, quietG |-> TRUE, early |-> "none"]
  /\ resetMon' = NoReset
  /\ lastSave' = IF lastSave.asset = "none" THEN lastSave ELSE [lastSave EXCEPT !.reloaded = TRUE]
  /\ UNCHANGED <<textureList, nextGen, docs, blob, lsModelKey, pending, probe,
                 faults, uncaught>>

\* ------------------------------------------------------------ specification
\* an entry a previous session left in the persisted history: a colour edit of the
\* unnamed, textured mesh of the car, recorded on an object of that session
PrevEntry ==
  [meshName |-> "part_undefined",
   material |-> [name |-> "part_undefined", uuid |-> [gen |-> 0, idx |-> 2],
                 color |-> "ef4444", preset |-> "custom", textureDataURL |-> NullURL,
                 roughness |-> 8, metalness |-> 1]]

\* what a previous session may have left in the stores and in localStorage:
\* nothing, or the car with a history of MAX_HISTORY colour edits, the last undone
PrevSessions ==
  { [history |-> Absent, blob |-> NoUrl, key |-> FALSE],
    [history |-> historyDoc([i \in 1..(MAX_HISTORY - 1) |-> PrevEntry], <<PrevEntry>>),
     blob |-> "car", key |-> TRUE] }

\* the component has just mounted: its effects have issued their requests and the
\* canvas has reported its root scene
Init ==
  \E prev \in PrevSessions :
    /\ undoHistory = <<>>
    /\ redoHistory = <<>>
    /\ scene = RootScene
    /\ modelUrl = NoUrl
    /\ selectedMesh = NoMesh
    /\ textureList = {}
    /\ graphs = [g \in Gens |-> <<>>]
    /\ mounted = 0
    /\ nextGen = 0
    /\ docs = [k \in {HISTORY_KEY, MODEL_STATE_KEY} |->
                 IF k = HISTORY_KEY THEN prev.history ELSE Absent]
    /\ blob = prev.blob
    /\ storeQ = mountRequests(prev.key)
    /\ lsModelKey = prev.key
    /\ pending = <<>>
    /\ notices = <<>>
    /\ faults = NoFaults
    /\ uncaught = {}
    /\ ops = MaxOps
    /\ rt = RtIdle
    /\ boot = [history |-> prev.history, quietH |-> TRUE, quietG |-> TRUE, early |-> "none"]
    /\ resetMon = NoReset
    /\ lastSave = NoSave
    /\ probe = NoProbe

Next ==
  \/ ApplyColor
  \/ ApplyPreset
  \/ ApplyTexture
  \/ PickTexture
  \/ ResumeEdit
  \/ ReaderLoaded
  \/ TextureLoaded
  \/ Undo
  \/ Redo
  \/ ResumeUndo
  \/ ResumeRedo
  \/ SelectMesh
  \/ Browse
  \/ BrowseStored
  \/ BlobLoaded
  \/ ModelMounted
  \/ RestoreLoaded
  \/ HistoryLoaded
  \/ StorePut
  \/ Save
  \/ Clear
  \/ NewSession

Spec == Init /\ [][Next]_vars

\* The history engine alone, from the states Spec reaches once an asset is loaded
\* and the startup requests are served: the car with the history of the previous
\* session, or a freshly browsed box.
LoadedSessions ==
  { [asset |-> "car",
     history |-> historyDoc([i \in 1..(MAX_HISTORY - 1) |-> PrevEntry], <<PrevEntry>>)],
    [asset |-> "box", history |-> historyDoc(<<>>, <<>>)] }

InitEngine ==
  \E s \in LoadedSessions :
    /\ undoHistory = s.history.undoHistory
    /\ redoHistory = s.history.redoHistory
    /\ scene = GltfScene(1)
    /\ modelUrl = s.asset
    /\ selectedMesh = NoMesh
    /\ textureList = {}
    /\ graphs = [g \in Gens |-> IF g = 1 THEN builtGraph(s.asset, 1) ELSE <<>>]
    /\ mounted = 1
    /\ nextGen = 1
    /\ docs = [k \in {HISTORY_KEY, MODEL_STATE_KEY} |->
                 IF k = HISTORY_KEY THEN s.history ELSE Absent]
    /\ blob = s.asset
    /\ storeQ = <<>>
    /\ lsModelKey = TRUE
    /\ pending = <<>>
    /\ notices = <<>>
    /\ faults = NoFaults
    /\ uncaught = {}
    /\ ops = MaxEngineOps
    /\ rt = RtIdle
    /\ boot = [history |-> s.history, quietH |-> TRUE, quietG |-> TRUE, early |-> "none"]
    /\ resetMon = NoReset
    /\ lastSave = NoSave
    /\ probe = NoProbe

NextEngine ==
  \/ ApplyColor
  \/ ApplyPreset
  \/ ApplyTexture
  \/ PickTexture
  \/ ResumeEdit
  \/ ReaderLoaded
  \/ TextureLoaded
  \/ Undo
  \/ Redo
  \/ ResumeUndo
  \/ ResumeRedo
  \/ UndoIdle
  \/ RedoIdle
  \/ SelectMesh
  \/ StorePut

SpecEngine == InitEngine /\ [][NextEngine]_vars

\* deserializeMaterial alone, on a scene and a snapshot taken from bounded sets:
\* the graph of an asset or an empty scene; a snapshot whose uuid and name may or
\* may not be those of an object of the scene
ProbeScenes == {builtGraph(a, 1) : a \in AssetNames} \cup {<<>>}

ProbeSnapshots ==
  [name : {"wheel", "part_undefined", "door", ""},
   uuid : {[gen |-> 1, idx |-> 1], [gen |-> 1, idx |-> 2], [gen |-> 0, idx |-> 1]},
   color : EditColors,
   preset : {"custom"},
   textureDataURL : {NullURL, "img1"},
   roughness : {0, 8},
   metalness : {0, 9}]

InitProbe ==
  /\ undoHistory = <<>>
  /\ redoHistory = <<>>
  /\ scene = RootScene
  /\ modelUrl = NoUrl
  /\ selectedMesh = NoMesh
  /\ textureList = {}
  /\ graphs = [g \in Gens |-> <<>>]
  /\ mounted = 0
  /\ nextGen = 0
  /\ docs = [k \in {HISTORY_KEY, MODEL_STATE_KEY} |-> Absent]
  /\ blob = NoUrl
  /\ storeQ = <<>>
  /\ lsModelKey = FALSE
  /\ pending = <<>>
  /\ notices = <<>>
  /\ faults = NoFaults
  /\ uncaught = {}
  /\ ops = 0
  /\ rt = RtIdle
  /\ boot = [history |-> Absent, quietH |-> TRUE, quietG |-> TRUE, early |-> "none"]
  /\ resetMon = NoReset
  /\ lastSave = NoSave
  /\ \E ms \in ProbeScenes : \E saved \in ProbeSnapshots :
       probe = [ms |-> ms, saved |-> saved, out |-> <<>>, done |-> FALSE]

\* deserializeMaterial(scene, saved) is called
ApplySnapshot ==
  /\ ~probe.done
  /\ probe' = [probe EXCEPT !.out = deserializeMaterial(probe.ms, probe.saved),
                            !.done = TRUE]
  /\ UNCHANGED <<undoHistory, redoHistory, scene, modelUrl, selectedMesh, textureList,
                 graphs, mounted, nextGen, docs, blob, storeQ, lsModelKey, pending,
                 notices, faults, uncaught, ops, rt, boot, resetMon, lastSave>>

NextProbe == ApplySnapshot

SpecProbe == InitProbe /\ [][NextProbe]_vars

\* deserializeMaterial on material instances. A scene is a sequence of meshes
\* that refer to instances (name, uuid, ref) and a heap, the sequence of the
\* instances; two meshes with the same ref share one instance.
\* the meshes as the rest of the model sees them: each with the values of its instance
viewOf(heap, ms) ==
  [i \in 1..Len(ms) |-> [name |-> ms[i].name, uuid |-> ms[i].uuid, mat |-> heap[ms[i].ref]]]

\* a deserializeMaterial that writes the snapshot into the instance the target has
applyInPlace(heap, ms, saved) ==
  LET i == resolveTarget(ms, saved) IN
  IF i = 0 THEN [heap |-> heap, ms |-> ms]
  ELSE [heap |-> [heap EXCEPT ![ms[i].ref] = materialOf(saved)], ms |-> ms]

\* deserializeMaterial: `new THREE.MeshStandardMaterial(...)`, `mesh.material = material`
applyOnHeap(heap, ms, saved) ==
  LET i == resolveTarget(ms, saved) IN
  IF i = 0 THEN [heap |-> heap, ms |-> ms]
  ELSE [heap |-> Append(heap, materialOf(saved)),
        ms |-> [ms EXCEPT ![i].ref = Len(heap) + 1]]

\* the scenes of the assets, each mesh with its own instance or all with the first
SharedScenes ==
  { [heap |-> [r \in 1..Len(builtGraph(a, 1)) |-> builtGraph(a, 1)[r].mat],
     ms |-> [i \in 1..Len(builtGraph(a, 1)) |->
               [name |-> builtGraph(a, 1)[i].name, uuid |-> builtGraph(a, 1)[i].uuid,
                ref |-> IF share THEN 1 ELSE i]]] :
    a \in AssetNames, share \in BOOLEAN }

InitShared ==
  /\ undoHistory = <<>>
  /\ redoHistory = <<>>
  /\ scene = RootScene
  /\ modelUrl = NoUrl
  /\ selectedMesh = NoMesh
  /\ textureList = {}
  /\ graphs = [g \in Gens |-> <<>>]
  /\ mounted = 0
  /\ nextGen = 0
  /\ docs = [k \in {HISTORY_KEY, MODEL_STATE_KEY} |-> Absent]
  /\ blob = NoUrl
  /\ storeQ = <<>>
  /\ lsModelKey = FALSE
  /\ pending = <<>>
  /\ notices = <<>>
  /\ faults = NoFaults
  /\ uncaught = {}
  /\ ops = 0
  /\ rt = RtIdle
  /\ boot = [history |-> Absent, quietH |-> TRUE, quietG |-> TRUE, early |-> "none"]
  /\ resetMon = NoReset
  /\ lastSave = NoSave
  /\ \E sc \in SharedScenes : \E saved \in ProbeSnapshots :
       probe = [heap |-> sc.heap, ms |-> sc.ms, saved |-> saved,
                out |-> [heap |-> <<>>, ms |-> <<>>], done |-> FALSE]

\* deserializeMaterial(scene, saved) is called on a scene with shared instances
ApplyShared ==
  /\ ~probe.done
  /\ probe' = [probe EXCEPT !.out = applyOnHeap(probe.heap, probe.ms, probe.saved),
                            !.done = TRUE]
  /\ UNCHANGED <<undoHistory, redoHistory, scene, modelUrl, selectedMesh, textureList,
                 graphs, mounted, nextGen, docs, blob, storeQ, lsModelKey, pending,
                 notices, faults, uncaught, ops, rt, boot, resetMon, lastSave>>

NextShared == ApplyShared

SpecShared == InitShared /\ [][NextShared]_vars

\* Restoration alone: a session that starts with the car in the blob store and,
\* in the document store, what an earlier saveCurrentState left: nothing, the
\* state of the car with its wheel coloured, the state of the car after a colour
\* edit had taken the texture off its second part, or the state of another asset
\* (a single part named door)
SavedDocs ==
  { Absent,
    modelDoc(<< [name |-> "wheel", color |-> "ef4444", textureDataURL |-> NullURL],
                [name |-> "part_undefined", color |-> "6b7280",
                 textureDataURL |-> "img0"] >>, <<>>, <<>>, {}),
    modelDoc(<< [name |-> "wheel", color |-> "ffffff", textureDataURL |-> NullURL],
                [name |-> "part_undefined", color |-> "10b981",
                 textureDataURL |-> NullURL] >>, <<>>, <<>>, {}),
    modelDoc(<< [name |-> "door", color |-> "10b981", textureDataURL |-> "img1"] >>,
             <<>>, <<>>, {}) }

InitRestore ==
  \E doc \in SavedDocs :
    /\ undoHistory = <<>>
    /\ redoHistory = <<>>
    /\ scene = RootScene
    /\ modelUrl = NoUrl
    /\ selectedMesh = NoMesh
    /\ textureList = {}
    /\ graphs = [g \in Gens |-> <<>>]
    /\ mounted = 0
    /\ nextGen = 0
    /\ docs = [k \in {HISTORY_KEY, MODEL_STATE_KEY} |->
                 IF k = HISTORY_KEY THEN Absent ELSE doc]
    /\ blob = "car"
    /\ storeQ = mountRequests(TRUE)
    /\ lsModelKey = TRUE
    /\ pending = <<>>
    /\ notices = <<>>
    /\ faults = NoFaults
    /\ uncaught = {}
    /\ ops = MaxRestoreOps
    /\ rt = RtIdle
    /\ boot = [history |-> Absent, quietH |-> TRUE, quietG |-> TRUE, early |-> "none"]
    /\ resetMon = NoReset
    /\ lastSave = NoSave
    /\ probe = NoProbe

NextRestore ==
  \/ HistoryLoaded
  \/ StorePut
  \/ BlobLoaded
  \/ ModelMounted
  \/ RestoreLoaded
  \/ TextureLoaded
  \/ Clear
  \/ Browse
  \/ BrowseStored

SpecRestore == InitRestore /\ [][NextRestore]_vars

\* A slow startup load. getModelBlob reads the store 'models', whose transactions
\* do not wait for those of the store 'states': the stored asset has been read and
\* the model has mounted while the startup fetch of the history, the first write of
\* the persist effect behind it and the fetches of the restore effects are still
\* outstanding.
InitLate ==
  \E s \in LoadedSessions :
    /\ undoHistory = <<>>
    /\ redoHistory = <<>>
    /\ scene = GltfScene(1)
    /\ modelUrl = s.asset
    /\ selectedMesh = NoMesh
    /\ textureList = {}
    /\ graphs = [g \in Gens |-> IF g = 1 THEN builtGraph(s.asset, 1) ELSE <<>>]
    /\ mounted = 1
    /\ nextGen = 1
    /\ docs = [k \in {HISTORY_KEY, MODEL_STATE_KEY} |->
                 IF k = HISTORY_KEY THEN s.history ELSE Absent]
    /\ blob = s.asset
    /\ storeQ = restoreEffect(
                  Append(restoreEffect(SubSeq(mountRequests(TRUE), 1, 2),
                                       RootScene, s.asset),
                         restoreRequest(GltfScene(1))),
                  GltfScene(1), s.asset)
    /\ lsModelKey = TRUE
    /\ pending = <<>>
    /\ notices = <<>>
    /\ faults = NoFaults
    /\ uncaught = {}
    /\ ops = MaxLateOps
    /\ rt = RtIdle
    /\ boot = [history |-> s.history, quietH |-> TRUE, quietG |-> TRUE, early |-> "none"]
    /\ resetMon = NoReset
    /\ lastSave = NoSave
    /\ probe = NoProbe

\* applyColorToSelected while requests of the startup are still outstanding
ApplyColorEarly ==
  /\ Len(storeQ) < MaxLateQueue
  /\ \E hex \in EditColors : EditStarts("custom", [type |-> "color", value |-> hex])

NextLate ==
  \/ SelectMesh
  \/ ApplyColorEarly
  \/ ResumeEdit
  \/ HistoryLoaded
  \/ StorePut
  \/ RestoreLoaded

SpecLate == InitLate /\ [][NextLate]_vars

\* ------------------------------------------------------------ storage failures
\* the call site of a store request: the continuation that awaits it; the persist
\* effect and resetHistory await nothing after their write
callSite(req) == IF req.cont.kind = "none" THEN "historyWrite" ELSE req.cont.kind

\* the database stops being available: from now on indexedDB.open fails
StorageLost ==
  /\ ~faults.down
  /\ faults.left > 0
  /\ faults' = [down |-> TRUE, left |-> faults.left - 1]
  /\ UNCHANGED <<undoHistory, redoHistory, scene, modelUrl, selectedMesh, textureList,
                 graphs, mounted, nextGen, docs, blob, storeQ, lsModelKey, pending,
                 notices, uncaught, ops, rt, boot, resetMon, lastSave, probe>>

\* openDB rejects: the `await openDB()` of the idb function throws, the function's
\* promise is rejected and so is that of its caller, which has no try/catch
OpenFails ==
  /\ faults.down
  /\ storeQ # <<>>
  /\ storeQ' = Tail(storeQ)
  /\ uncaught' = uncaught \cup {callSite(Head(storeQ))}
  /\ resetMon' = NoReset
  /\ UNCHANGED <<undoHistory, redoHistory, scene, modelUrl, selectedMesh, textureList,
                 graphs, mounted, nextGen, docs, blob, lsModelKey, pending,
                 notices, faults, ops, rt, boot, lastSave, probe>>

\* request.onerror of getModelState / getModelBlob: reject(...), and the caller's
\* await throws with no try/catch around it
GetFails ==
  /\ ~faults.down
  /\ faults.left > 0
  /\ storeQ # <<>>
  /\ Head(storeQ).op \in {"get", "getBlob"}
  /\ storeQ' = Tail(storeQ)
  /\ faults' = [faults EXCEPT !.left = @ - 1]
  /\ uncaught' = uncaught \cup {callSite(Head(storeQ))}
  /\ resetMon' = NoReset
  /\ UNCHANGED <<undoHistory, redoHistory, scene, modelUrl, selectedMesh, textureList,
                 graphs, mounted, nextGen, docs, blob, lsModelKey, pending,
                 notices, ops, rt, boot, lastSave, probe>>

\* the put of saveModelState fails: the function has returned tx.complete (which
\* is undefined) when the put was issued, so its caller goes on as after a success
PutFails ==
  /\ ~faults.down
  /\ faults.left > 0
  /\ storeQ # <<>>
  /\ Head(storeQ).op = "put"
  /\ storeQ' = Tail(storeQ)
  /\ faults' = [faults EXCEPT !.left = @ - 1]
  /\ notices' = IF Head(storeQ).cont.kind = "saved" THEN Append(notices, "Saved!")
                 ELSE notices
  /\ resetMon' = NoReset
  /\ UNCHANGED <<undoHistory, redoHistory, scene, modelUrl, selectedMesh, textureList,
                 graphs, mounted, nextGen, docs, blob, lsModelKey, pending,
                 uncaught, ops, rt, boot, lastSave, probe>>

\* the put of saveModelBlob fails: the function has returned tx.complete (which is
\* undefined) when the put was issued, so handleBrowse goes on as after a success:
\* setModelUrl with the object URL of the file, modelKey, resetHistory
BlobPutFails ==
  /\ ~faults.down
  /\ faults.left > 0
  /\ storeQ # <<>>
  /\ Head(storeQ).op = "putBlob"
  /\ faults' = [faults EXCEPT !.left = @ - 1]
  /\ modelUrl' = Head(storeQ).data
  /\ mounted' = 0
  /\ lsModelKey' = TRUE
  /\ undoHistory' = <<>>
  /\ redoHistory' = <<>>
  /\ storeQ' = restoreEffect(resetWrites(Tail(storeQ)), scene, modelUrl')
  /\ rt' = RtIdle
  /\ boot' = NoisyH
  /\ resetMon' = resetSeen(resetWrites(Tail(storeQ)), Tail(storeQ))
  /\ UNCHANGED <<scene, selectedMesh, textureList, graphs, nextGen, docs, blob,
                 pending, notices, ops, lastSave, probe, uncaught>>

\* A session in which the storage may fail: the database becomes unavailable, or a
\* single read or write fails
InitFaulty ==
  \E prev \in PrevSessions :
    /\ undoHistory = <<>>
    /\ redoHistory = <<>>
    /\ scene = RootScene
    /\ modelUrl = NoUrl
    /\ selectedMesh = NoMesh
    /\ textureList = {}
    /\ graphs = [g \in Gens |-> <<>>]
    /\ mounted = 0
    /\ nextGen = 0
    /\ docs = [k \in {HISTORY_KEY, MODEL_STATE_KEY} |->
                 IF k = HISTORY_KEY THEN prev.history ELSE Absent]
    /\ blob = prev.blob
    /\ storeQ = mountRequests(prev.key)
    /\ lsModelKey = prev.key
    /\ pending = <<>>
    /\ notices = <<>>
    /\ faults = [down |-> FALSE, left |-> MaxFaults]
    /\ uncaught = {}
    /\ ops = MaxFaultOps
    /\ rt = RtIdle
    /\ boot = [history |-> prev.history, quietH |-> TRUE, quietG |-> TRUE, early |-> "none"]
    /\ resetMon = NoReset
    /\ lastSave = NoSave
    /\ probe = NoProbe

NextFaulty ==
  \/ StorageLost
  \/ OpenFails
  \/ GetFails
  \/ PutFails
  \/ BlobPutFails
  \/ HistoryLoaded
  \/ StorePut
  \/ BlobLoaded
  \/ ModelMounted
  \/ RestoreLoaded
  \/ Browse
  \/ BrowseStored
  \/ SelectMesh
  \/ ApplyColor
  \/ ResumeEdit
  \/ Undo
  \/ ResumeUndo
  \/ Redo
  \/ ResumeRedo
  \/ Save
  \/ Clear

SpecFaulty == InitFaulty /\ [][NextFaulty]_vars

\* the states InitEngine starts from, as states of Spec
EngineStart ==
  /\ storeQ = <<>> /\ pending = <<>> /\ mounted = 1 /\ scene = GltfScene(1)
  /\ selectedMesh = NoMesh /\ textureList = {}
  /\ \E s \in LoadedSessions :
       /\ undoHistory = s.history.undoHistory
       /\ redoHistory = s.history.redoHistory
       /\ docs[HISTORY_KEY] = s.history
       /\ graphs[1] = builtGraph(s.asset, 1)
       /\ modelUrl = s.asset

\* ------------------------------------------------------------------- claims
\* C1: round-trip law. For a sequence of k <= MAX_HISTORY edits, after the j-th of
\* the undos that follow them every object has the material state it had before
\* the j-th last edit (so k undos give the state before the first edit), and once
\* as many redos have followed every object has the state it had after the last
\* edit; for every starting material value, roughness or metalness 0 included.
RoundTripLaw ==
  /\ rt.phase = "undos" => MatsOf(graphs) = rt.T[rt.pos]
  /\ rt.phase = "redos" /\ rt.pos = Len(rt.T) => MatsOf(graphs) = rt.T[rt.pos]

\* C2: whenever an edit has been recorded (pushUndo has run to its end, from any of
\* the edit handlers, at once or after its capture), the redo stack is empty.
EditRecorded ==
  /\ ApplyColor \/ ApplyPreset \/ ApplyTexture \/ PickTexture \/ ResumeEdit
  /\ storeQ' # storeQ

RedoEmptyAfterEdit == [][EditRecorded => redoHistory' = <<>>]_vars

\* an edit of the wheel was recorded on top of the previous session's history,
\* whose redo stack held an entry
RedoDiscarded ==
  /\ Len(undoHistory) = MAX_HISTORY
  /\ \A i \in 1..(MAX_HISTORY - 1) : undoHistory[i] = PrevEntry
  /\ undoHistory[MAX_HISTORY].meshName = "wheel"
  /\ redoHistory = <<>>

UndoIsGlobalLifo ==
  rt.phase = "undos" /\ Len(rt.T) = 3 /\ rt.targets[1] # rt.targets[2] =>
    LET A == rt.targets[1]
        B == rt.targets[2]
    IN /\ rt.pos = 2 => MatsOf(graphs)[B.gen][B.idx] = rt.T[2][B.gen][B.idx]
       /\ rt.pos = 1 => MatsOf(graphs)[A.gen][A.idx] = rt.T[1][A.gen][A.idx]

\* C5: an undo (redo) whose entry names an object that is not in the scene still
\* takes the entry off its stack and offers it on the other one, changes no
\* material, and leaves the entries below it reachable.
MissingTargetStep ==
  \/ /\ Undo
     /\ ~targetFound(undoHistory[Len(undoHistory)])
     /\ ~(/\ undoHistory' = dropLast(undoHistory)
          /\ Len(redoHistory') = Len(redoHistory) + 1
          /\ graphs' = graphs)
  \/ /\ Redo
     /\ ~targetFound(redoHistory[Len(redoHistory)])
     /\ ~(/\ redoHistory' = dropLast(redoHistory)
          /\ Len(undoHistory') = Len(undoHistory) + 1
          /\ graphs' = graphs)

MissingTargetConsumed == [][~MissingTargetStep]_vars

\* C6: applying a snapshot whose target is no object of the scene (neither its
\* identity nor its name is found) returns with every material of the scene as it
\* was.
TargetMissing ==
  \A i \in 1..Len(probe.ms) :
    probe.ms[i].uuid # probe.saved.uuid /\ probe.ms[i].name # probe.saved.name

ApplyMissingIsNoOp == probe.done /\ TargetMissing => probe.out = probe.ms

\* a snapshot of a part the loaded scene does not have has been applied
AppliedToMissing ==
  /\ probe.done
  /\ TargetMissing
  /\ probe.ms # <<>>
  /\ probe.saved.name = "door"

\* C7: a reset (on removing the model, or on loading a new asset) leaves both
\* stacks empty, and once every write that was pending at the reset has been
\* served, together with the reset's own, the persisted history document holds
\* two empty stacks.
ResetStep == Clear \/ BrowseStored

ResetEmptiesHistory ==
  /\ [][ResetStep => undoHistory' = <<>> /\ redoHistory' = <<>>]_vars
  /\ [](resetMon.left = 0 => docs[HISTORY_KEY] = historyDoc(<<>>, <<>>))

\* the writes up to a reset are all served, and one of them, issued before the
\* reset and still pending at it, carried a non-empty history
ResetOvertookWrite == resetMon.left = 0 /\ resetMon.stale

\* C8: when a history document was in the store at startup, then once the startup
\* load has completed and while no history operation has run, the stacks in memory
\* are those of the document and the document in the store is still that one: the
\* startup has not replaced it by empty stacks.
StartupLoadDone == \A i \in 1..Len(storeQ) : storeQ[i].cont.kind # "historyLoad"

StartupKeepsHistory ==
  boot.history # Absent /\ boot.quietH /\ StartupLoadDone =>
    /\ undoHistory = boot.history.undoHistory
    /\ redoHistory = boot.history.redoHistory
    /\ docs[HISTORY_KEY] = boot.history

\* C9: after saveCurrentState has succeeded, a new session that loads the same
\* asset and has completed its restoration, with no edit yet, shows every object
\* with the colour, roughness, metalness and texture presence it had at the save.
RestoreDone ==
  /\ mounted # 0
  /\ \A i \in 1..Len(storeQ) : storeQ[i].cont.kind # "restore"

SavedStateComesBack ==
  /\ lastSave.reloaded
  /\ docs[MODEL_STATE_KEY] = lastSave.doc
  /\ modelUrl = lastSave.asset
  /\ RestoreDone
  /\ boot.quietG
  => \A i \in 1..Len(lastSave.mats) :
       LET now == MatsOf(graphs)[mounted][i]
           was == lastSave.mats[i]
       IN /\ now.color = was.color
          /\ now.roughness = was.roughness
          /\ now.metalness = was.metalness
          /\ (now.img = "none") = (was.img = "none")

\* C10: the restored state does not depend on whether the graph or the saved model
\* state arrives first: once the restoration of a session is complete, with no
\* edit yet, every object that is the first of its name has the colour of the last
\* saved entry of that name and the texture of the last such entry that has one,
\* and every other value is the asset's.
RestoreOrderIndependent ==
  /\ RestoreDone
  /\ boot.quietG
  /\ docs[MODEL_STATE_KEY] # Absent
  /\ lastSave.asset = "none" \/ lastSave.reloaded
  => LET ms == graphs[mounted]
         base == builtGraph(modelUrl, mounted)
         es == docs[MODEL_STATE_KEY].materials
     IN \A i \in 1..Len(ms) :
          LET named == {k \in 1..Len(es) : es[k].name = ms[i].name}
              textured == {k \in named : es[k].textureDataURL # NullURL}
              last(S) == CHOOSE k \in S : \A j \in S : j <= k
              first == \A j \in 1..(i - 1) : ms[j].name # ms[i].name
          IN IF first /\ named # {}
             THEN matState(ms[i].mat) =
                    [color |-> es[last(named)].color,
                     roughness |-> base[i].mat.roughness,
                     metalness |-> base[i].mat.metalness,
                     img |-> IF textured # {} THEN es[last(textured)].textureDataURL
                             ELSE base[i].mat.map.img]
             ELSE matState(ms[i].mat) = matState(base[i].mat)

\* a saved colour is on the first object, in place of the asset's, in a session
\* whose first fetch of the saved state resolved before the graph was there
RestoredFetchFirst ==
  /\ RestoreDone
  /\ boot.quietG
  /\ lastSave.reloaded
  /\ boot.early = "fetchFirst"
  /\ docs[MODEL_STATE_KEY] # Absent
  /\ graphs[mounted][1].mat.color # builtGraph(modelUrl, mounted)[1].mat.color

\* C11: a restoration whose fetch resolves when the scene it captured is no longer
\* the current one (the asset was cleared or another one loaded meanwhile) changes
\* no object.
StaleRestoreStep ==
  /\ RestoreLoaded
  /\ Head(storeQ).cont.scene \notin {RootScene, scene}

StaleRestoreAppliesNothing == [][StaleRestoreStep => graphs' = graphs]_vars

\* C12: a restoration changes no object when no modelState document exists, and
\* an entry whose name is the name of no object of the scene changes nothing: every
\* object a restoration changes carries the name of an entry of the document.
RestoreTouchesNamedOnly ==
  [][RestoreLoaded =>
       LET saved == docs[MODEL_STATE_KEY] IN
       /\ saved = Absent => graphs' = graphs
       /\ saved # Absent =>
            \A g \in Gens : \A i \in 1..Len(graphs[g]) :
              graphs'[g][i] # graphs[g][i] =>
                \E k \in 1..Len(saved.materials) :
                  saved.materials[k].name = graphs[g][i].name]_vars

\* the restoration of a session is complete on the mounted car, the stored
\* document only has an entry for a door, and the car is as the asset defines it
RestoredNothing ==
  /\ RestoreDone
  /\ docs[MODEL_STATE_KEY] # Absent
  /\ \A k \in 1..Len(docs[MODEL_STATE_KEY].materials) :
       docs[MODEL_STATE_KEY].materials[k].name = "door"
  /\ boot.early # "none"
  /\ modelUrl = "car"
  /\ graphs[mounted] = builtGraph("car", mounted)

\* C13: every mesh the asset leaves without a name is named part_<index>, its
\* zero-based position in the traversal (or, counting the unnamed meshes only, its
\* position among them), so that two unnamed meshes never get the same name.
UnnamedGetPartIndex ==
  mounted # 0 =>
    LET src == AssetMeshes(modelUrl)
        unnamed == {i \in 1..Len(src) : src[i].name = ""}
        part == <<"part_0", "part_1">>
        rank(i) == Cardinality({j \in unnamed : j <= i})
    IN /\ \A i \in unnamed :
            graphs[mounted][i].name \in {part[i], part[rank(i)]}
       /\ \A i, j \in unnamed :
            i # j => graphs[mounted][i].name # graphs[mounted][j].name

\* C14: once the names are assigned, no two meshes of the loaded scene carry the
\* same name, so a name of a history entry or of a modelState entry resolves to at
\* most one mesh.
NamesAreUnique ==
  mounted # 0 =>
    \A i, j \in 1..Len(graphs[mounted]) :
      graphs[mounted][i].name = graphs[mounted][j].name => i = j

\* C15: the object deserializeMaterial modifies is the one the lookup by the
\* snapshot's name returns (none when the name is not found); the uuid of the
\* snapshot never decides it.
ApplyResolvesByName ==
  probe.done =>
    LET i == getObjectByName(probe.ms, probe.saved.name) IN
    probe.out = IF i = 0 THEN probe.ms
                ELSE [probe.ms EXCEPT ![i].mat = materialOf(probe.saved)]

\* C16: when the database cannot be opened the editor goes on in memory: a
\* handleBrowse whose saveModelBlob fails still installs the asset, and an edit
\* recorded while the storage is unavailable still updates the stacks.
BrowseOpenFails == OpenFails /\ Head(storeQ).op = "putBlob"

DegradesToMemory ==
  [][/\ BrowseOpenFails => modelUrl' = Head(storeQ).data
     /\ faults.down /\ EditRecorded =>
          /\ undoHistory' # <<>>
          /\ Len(undoHistory') \in {Len(undoHistory) + 1, MAX_HISTORY}
          /\ redoHistory' = <<>>]_vars

\* C17: no failure of a store operation, whether the database cannot be opened or
\* a single read or write fails, ends in a rejection that nothing handles.
NoUncaughtRejection == uncaught = {}

\* C18: when the write of saveCurrentState fails, the user is shown a failure
\* notice, and 'Saved!' is shown only for a write that succeeded.
SaveFails ==
  /\ OpenFails \/ PutFails
  /\ Head(storeQ).cont.kind = "saved"

FailedSaveIsReported ==
  [][SaveFails =>
       /\ Len(notices') = Len(notices) + 1
       /\ notices'[Len(notices')] # "Saved!"]_vars

\* C19: after the user has cleared the asset and the writes up to the clear are
\* served, the documents of the core are gone from the store: reading modelState
\* gives absent, and historyState holds no history.
ClearDeletesDocuments ==
  modelUrl = NoUrl /\ resetMon.left = 0 =>
    /\ docs[MODEL_STATE_KEY] = Absent
    /\ docs[HISTORY_KEY] \in {Absent, historyDoc(<<>>, <<>>)}

\* C20: while a recordEdit, undo or redo is suspended at its capture, no other
\* recordEdit, undo or redo starts: the controls are guarded.
CaptureSuspended ==
  \E i \in 1..Len(pending) : pending[i].kind \in {"edit", "undo", "redo"}

HistoryOpStarts ==
  ApplyColor \/ ApplyPreset \/ ApplyTexture \/ PickTexture \/ Undo \/ Redo

historyWrites == {i \in 1..Len(storeQ) : storeQ[i].op = "put" /\ storeQ[i].key = HISTORY_KEY}

\* C21: the writes of the history document reach the store in the order the stacks
\* changed: the last write in flight carries the stacks as they are now, and once no
\* write is in flight the stored document equals the stacks in memory.
HistoryWritesInOrder ==
  IF historyWrites # {}
  THEN \A i \in historyWrites :
         (\A j \in historyWrites : j <= i)
           => storeQ[i].data = historyDoc(undoHistory, redoHistory)
  ELSE docs[HISTORY_KEY] = historyDoc(undoHistory, redoHistory)

\* two writes of different stacks are in flight, the older one first
TwoHistoryWritesInFlight ==
  \E i, j \in historyWrites :
    /\ i < j
    /\ storeQ[i].data # storeQ[j].data
    /\ storeQ[j].data = historyDoc(undoHistory, redoHistory)
    /\ undoHistory # <<>>

\* C22: an edit recorded on an undo stack of MAX_HISTORY entries leaves exactly
\* MAX_HISTORY entries: the oldest is gone, the other MAX_HISTORY - 1 keep their
\* order, and the tail is the new entry, which names the edited object and carries
\* the colour it had before the edit.
EvictsOldestWhenFull ==
  [][(EditRecorded /\ Len(undoHistory) = MAX_HISTORY) =>
       /\ Len(undoHistory') = MAX_HISTORY
       /\ SubSeq(undoHistory', 1, MAX_HISTORY - 1) = SubSeq(undoHistory, 2, MAX_HISTORY)
       /\ LET new == undoHistory'[MAX_HISTORY]
              m == graphs[new.material.uuid.gen][new.material.uuid.idx]
          IN /\ new.meshName = m.name
             /\ new.material.color = m.mat.color]_vars

\* two edits of this session were recorded on top of the previous session's 19
\* entries: the second found the stack full and the oldest entry was evicted
OldestEvicted ==
  /\ Len(undoHistory) = MAX_HISTORY
  /\ \A i \in 1..(MAX_HISTORY - 2) : undoHistory[i] = PrevEntry
  /\ undoHistory[MAX_HISTORY - 1].material.uuid.gen = 1
  /\ undoHistory[MAX_HISTORY].material.uuid.gen = 1
  /\ undoHistory[MAX_HISTORY - 1].material.color # undoHistory[MAX_HISTORY].material.color

\* the material state a snapshot describes
snapshotState(s) ==
  [color |-> s.color, roughness |-> s.roughness, metalness |-> s.metalness,
   img |-> IF s.textureDataURL = NullURL THEN NoMap.img ELSE s.textureDataURL]

\* an undo that runs from its guard to its last statement in one step
UndoRuns == Undo /\ undoHistory' # undoHistory

\* a redo that runs from its guard to its last statement in one step
RedoRuns == Redo /\ redoHistory' # redoHistory

\* what a step that pops E off `from` and pushes onto `to` must do: `from` loses
\* exactly its tail, `to` gains exactly one tail entry, which holds the state the
\* object named by E had before the step; afterwards that object has the state of
\* E's snapshot, and no other object has changed
StepEffect(from, to, from2, to2) ==
  LET E == from[Len(from)]
      g == sceneGen(scene)
      t == getObjectByName(graphs[g], E.meshName)
  IN /\ from2 = SubSeq(from, 1, Len(from) - 1)
     /\ Len(to2) = Len(to) + 1
     /\ SubSeq(to2, 1, Len(to)) = to
     /\ to2[Len(to2)].meshName = E.meshName
     /\ snapshotState(to2[Len(to2)].material) = matState(graphs[g][t].mat)
     /\ matState(graphs'[g][t].mat) = snapshotState(E.material)
     /\ \A h \in Gens : \A i \in 1..Len(graphs[h]) :
          (h # g \/ i # t) => graphs'[h][i] = graphs[h][i]

\* C23: an undo with a non-empty undo stack, a scene and a resolvable target takes
\* exactly the tail E off the undo stack, puts exactly one entry on the redo stack,
\* holding the state the object named by E had just before, and leaves that object
\* in the state of E's snapshot; no other object changes.
UndoExactEffect ==
  [][UndoRuns => StepEffect(undoHistory, redoHistory, undoHistory', redoHistory')]_vars

\* C24: a redo with a non-empty redo stack, a scene and a resolvable target takes
\* exactly the tail E off the redo stack, puts exactly one entry on the undo stack,
\* holding the state the object named by E had just before, and leaves that object
\* in the state of E's snapshot; no other object changes.
RedoExactEffect ==
  [][RedoRuns => StepEffect(redoHistory, undoHistory, redoHistory', undoHistory')]_vars

EntryHoldsPriorState ==
  [][EditRecorded =>
       LET new == undoHistory'[Len(undoHistory')]
           m == graphs[new.material.uuid.gen][new.material.uuid.idx]
       IN /\ new.meshName = m.name
          /\ snapshotState(new.material) = matState(m.mat)]_vars

\* C27: deserializeMaterial gives its target a newly constructed material and writes
\* into no instance that existed before: every earlier instance keeps its values,
\* every other object keeps its instance, also when it shared that instance with the
\* target, and what the objects show afterwards is deserializeMaterial on the values.
ApplyBuildsNewInstance ==
  probe.done =>
    LET t == resolveTarget(probe.ms, probe.saved) IN
    /\ \A r \in 1..Len(probe.heap) : probe.out.heap[r] = probe.heap[r]
    /\ \A j \in 1..Len(probe.ms) : j # t => probe.out.ms[j] = probe.ms[j]
    /\ t # 0 => /\ probe.out.ms[t].ref \notin 1..Len(probe.heap)
                /\ probe.out.heap[probe.out.ms[t].ref] = materialOf(probe.saved)
    /\ viewOf(probe.out.heap, probe.out.ms)
         = deserializeMaterial(viewOf(probe.heap, probe.ms), probe.saved)

\* a snapshot was applied to an object that shared its instance with another
\* object, and the two show different materials afterwards
AppliedToSharedInstance ==
  /\ probe.done
  /\ Len(probe.ms) = 2
  /\ probe.ms[1].ref = probe.ms[2].ref
  /\ resolveTarget(probe.ms, probe.saved) = 2
  /\ probe.out.heap[probe.out.ms[1].ref] # probe.out.heap[probe.out.ms[2].ref]

\* C28: the restoration applies each entry of the saved model state as a pure
\* overwrite: what the object shows afterwards is determined by the entry alone, so
\* an entry saved with a colour and without a texture leaves the object with that
\* colour and without a texture (entries are taken one per name).
RestoreIsOverwrite ==
  [][RestoreLoaded =>
       LET saved == docs[MODEL_STATE_KEY]
           g == sceneGen(Head(storeQ).cont.scene)
       IN (saved # Absent /\ g # 0) =>
            \A k \in 1..Len(saved.materials) :
              LET e == saved.materials[k]
                  t == getObjectByName(graphs[g], e.name)
              IN (t # 0 /\ \A j \in 1..Len(saved.materials) :
                             saved.materials[j].name = e.name => j = k)
                 => /\ graphs'[g][t].mat.color = e.color
                    /\ graphs'[g][t].mat.map.img =
                         (IF e.textureDataURL = NullURL THEN NoMap.img
                          ELSE e.textureDataURL)]_vars

\* the material states of the meshes of one graph
graphState(ms) == [i \in 1..Len(ms) |-> matState(ms[i].mat)]

\* C29: the restoration is idempotent: once a saved model state has been applied to
\* a scene, applying the same document to the same scene again leaves every object
\* in the same material state, whatever the scene was before the first application.
RestoreIdempotent ==
  [][RestoreLoaded =>
       LET saved == docs[MODEL_STATE_KEY]
           g == sceneGen(Head(storeQ).cont.scene)
       IN (saved # Absent /\ g # 0) =>
            /\ graphState(restoreMaterials(graphs'[g], saved.materials))
                 = graphState(graphs'[g])
            /\ graphState(graphs[g]) = graphState(restoreMaterials(graphs[g], saved.materials))
                 => graphState(graphs'[g]) = graphState(graphs[g])]_vars

\* the saved state of the car has been applied by each of the restore effects, the
\* second and third time to a scene that already showed it
RestoredMoreThanOnce ==
  /\ RestoreDone
  /\ docs[MODEL_STATE_KEY] # Absent
  /\ boot.early = "graphFirst"
  /\ graphs[mounted][1].mat.color = "ef4444"
  /\ graphs[mounted][2].mat.map.ready

\* C30: the naming effect leaves every mesh that has a non-empty authored name with
\* exactly that name, and it writes nothing but the name of the unnamed meshes: the
\* graph has the asset's meshes, in the asset's order, with the asset's materials.
NamedMeshesKeepName ==
  [][ModelMounted =>
       LET src == AssetMeshes(modelUrl)
           ms == graphs'[mounted']
       IN /\ Len(ms) = Len(src)
          /\ \A i \in 1..Len(src) :
               /\ src[i].name # "" => ms[i].name = src[i].name
               /\ ms[i].mat = src[i].mat
          /\ \A g \in Gens : g # mounted' => graphs'[g] = graphs[g]]_vars

\* the car is mounted: its first mesh still has its authored name, and its second,
\* authored without a name, has a generated one
AuthoredNameKept ==
  /\ mounted # 0
  /\ modelUrl = "car"
  /\ graphs[mounted][1].name = "wheel"
  /\ graphs[mounted][2].name # ""
  /\ AssetMeshes("car")[2].name = ""

\* a texture is bound to the mesh and its image is available
textureAvailable(mesh) == mesh.mat.map # NoMap /\ mesh.mat.map.ready

\* the mesh whose state the step captures: the selected mesh for an edit, the mesh
\* found by the name of the top entry for an undo or a redo
editTarget == meshOf(selectedMesh)
stepTarget(stack) ==
  LET ms == sceneMeshes(scene) IN ms[getObjectByName(ms, stack[Len(stack)].meshName)]

\* what one capture must do: without an available texture the operation completes
\* in the same step and pushes an entry without texture data on `to`; with one it
\* suspends holding the data of the bound image
CaptureOutcome(target, to, to2) ==
  IF textureAvailable(target)
  THEN /\ Len(pending') = Len(pending) + 1
       /\ pending'[Len(pending')].tex = target.mat.map.img
       /\ to2 = to
  ELSE /\ to2 # <<>>
       /\ to2[Len(to2)].material.textureDataURL = NullURL
       /\ to2[Len(to2)].material.uuid = target.uuid
       /\ storeQ' # storeQ
       /\ uncaught' = uncaught

\* a suspended operation resumes: the entry it pushes on `to` carries the data its
\* capture took
ResumeOutcome(kind, to2) ==
  \E i \in 1..Len(pending) :
    /\ pending[i].kind = kind
    /\ Len(pending') >= Len(pending) - 1
    /\ SubSeq(pending', 1, Len(pending) - 1) = removeAt(pending, i)
    /\ pending[i].tex # NullURL
    /\ to2 # <<>>
    /\ to2[Len(to2)].material.textureDataURL = pending[i].tex

\* C31: the capture never fails: for an object with no texture, or with a texture
\* whose image is not available yet, an edit, an undo or a redo completes and pushes
\* a snapshot without texture data; texture data is in a snapshot only when a
\* texture was bound and its image available at the capture.
CaptureNeverFails ==
  [][/\ (ApplyColor \/ ApplyPreset \/ ApplyTexture \/ PickTexture)
         => CaptureOutcome(editTarget, undoHistory, undoHistory')
     /\ (Undo /\ targetFound(undoHistory[Len(undoHistory)]))
         => CaptureOutcome(stepTarget(undoHistory), redoHistory, redoHistory')
     /\ (Redo /\ targetFound(redoHistory[Len(redoHistory)]))
         => CaptureOutcome(stepTarget(redoHistory), undoHistory, undoHistory')
     /\ ResumeEdit => ResumeOutcome("edit", undoHistory')
     /\ ResumeUndo => ResumeOutcome("undo", redoHistory')
     /\ ResumeRedo => ResumeOutcome("redo", undoHistory')]_vars

\* the second part of the car was captured while a texture was bound to it whose
\* image had not been decoded yet: the entry has its colour and no texture data
CapturedUndecoded ==
  /\ modelUrl = "car"
  /\ \E k \in 1..Len(undoHistory) :
       /\ undoHistory[k].material.uuid = [gen |-> 1, idx |-> 2]
       /\ undoHistory[k].material.color = "6b7280"
       /\ undoHistory[k].material.textureDataURL = NullURL

\* a saveModelState has resolved: its caller goes on
PutResolves == (StorePut \/ PutFails) /\ Head(storeQ).op = "put"

\* C32: a put reports completion only when the value is stored: when
\* saveModelState(key, v) has resolved, the store holds v under key, which is what
\* a get issued afterwards returns until a later put resolves.
PutResolvesWhenStored ==
  [][PutResolves => docs'[Head(storeQ).key] = Head(storeQ).data]_vars

\* the entry of a texture edit is on the undo stack and its mutation is still
\* waiting in the file reader's callback
TextureMutationPending == \E i \in 1..Len(pending) : pending[i].kind = "reader"

\* C33: once the entry of a texture edit has been pushed, no undo, redo or other
\* edit takes effect before the texture has been put on the object: while the
\* mutation waits in the file reader's callback the stacks do not change.
NoHistoryOpBeforeTexture ==
  [][TextureMutationPending => UNCHANGED <<undoHistory, redoHistory>>]_vars

\* C34: a restoration never overwrites a user edit: an object that was edited in
\* this session, after its scene was ready and before the fetch of the restoration
\* resolved (the last history operations were edits, its entry is on the undo stack
\* and its mutation is applied), has the same material after the restoration as
\* before.
RestoreKeepsEdits ==
  [][(RestoreLoaded /\ ~TextureMutationPending /\ rt.phase = "edits") =>
       LET g == sceneGen(Head(storeQ).cont.scene) IN
       \A k \in 1..Len(undoHistory) :
         LET u == undoHistory[k].material.uuid IN
         (g # 0 /\ u.gen = g) => graphs'[g][u.idx].mat = graphs[g][u.idx].mat]_vars

\* C35: after another asset has been loaded through handleBrowse, no material value
\* that was saved in modelState for the asset loaded before is applied to an object
\* of the new asset, also when the two assets have an object of the same name.
OldStateNotAppliedToNewAsset ==
  [][RestoreLoaded =>
       LET g == sceneGen(Head(storeQ).cont.scene) IN
       (/\ lastSave.asset # "none"
        /\ docs[MODEL_STATE_KEY] = lastSave.doc
        /\ modelUrl \notin {NoUrl, lastSave.asset}
        /\ g # 0 /\ g = mounted)
       => graphs'[g] = graphs[g]]_vars

\* C36: the startup load of the history never discards history recorded in this
\* session: every entry that is on the undo stack when the fetch of the startup
\* load resolves is still on the undo stack after the load has been applied.
StartupLoadKeepsSession ==
  [][HistoryLoaded =>
       \A k \in 1..Len(undoHistory) :
         \E j \in 1..Len(undoHistory') : undoHistory'[j] = undoHistory[k]]_vars

\* the object whose state a step popping `from` captured on `to2` is the object
\* the popped snapshot is applied to
CapturedIsApplied(from, to2) ==
  LET E == from[Len(from)]
      ms == sceneMeshes(scene)
      t == resolveTarget(ms, E.material)
  IN t # 0 => to2[Len(to2)].material.uuid = ms[t].uuid

\* C37: in undo and in redo the object whose current state is captured for the
\* opposite stack is the object the popped snapshot is then applied to, also in a
\* scene in which several meshes carry the same name.
CaptureAndApplySameObject ==
  [][/\ UndoRuns => CapturedIsApplied(undoHistory, redoHistory')
     /\ RedoRuns => CapturedIsApplied(redoHistory, undoHistory')]_vars

\* a handleBrowse is waiting for its saveModelBlob
BrowseInFlight == \E i \in 1..Len(storeQ) : storeQ[i].op = "putBlob"

\* C38: clearing the asset is durable: while the model key is absent (the asset
\* was cleared or never loaded) and no handleBrowse is in flight, no asset is
\* installed, in this session or after the next startup; and whenever the model
\* key is present, the blob it names is in the blob store.
ClearIsDurable ==
  /\ (~lsModelKey /\ ~BrowseInFlight) => modelUrl = NoUrl
  /\ lsModelKey => blob # NoUrl
====
